---- MODULE Spec2Model ----
(***************************************************************************)
(* GithubIssueService (server/polar/integrations/github/service/issue.py): *)
(* the conditional (etag) fetch of one issue, the mapping of the HTTP      *)
(* status onto the stored issue row, and the two crawl queries that pick   *)
(* the issues whose body / timeline is due for a new fetch.                *)
(*                                                                         *)
(* Time is an integer clock whose unit is one hour.                        *)
(***************************************************************************)
EXTENDS Integers, Sequences, FiniteSets, TLC

\* ------------------------------------------------------------------ bounds
MaxTime    == 3      \* the clock runs 0..MaxTime
MaxBatch   == 1      \* longest webhook batch given to store_many

\* ------------------------------------------------------- program constants
Null     == -1       \* Python None / SQL NULL
OneHour  == 1        \* datetime.timedelta(hours=1), in clock units
Deleted  == 0        \* deleted_at of a soft-deleted row

Ids      == {1, 2}   \* the issue rows in the store
Payloads == {1}      \* representations the remote sends (0: the local one)

VARIABLES
    issues,   \* issues[i]: the stored row of issue i
    org,      \* the owning Organization row
    repo,     \* the owning Repository row
    now,      \* the clock (utcnow)
    lim,      \* .limit(1000) scaled to the rows modelled: a cap that the
              \* backlog can exceed (lim = 1) or cannot (lim = 2)
    last,     \* what the most recent call was and what it returned
    gone,     \* ids whose fetch has answered 410
    queue,    \* crawl worker: rows of the current pass not yet synced
    wk,       \* wk[w]: the call of sync_issue that task w is inside of
    batch,    \* webhook path: the list the last store_many was given
    crawled   \* crawled[i]: clock units left of the hour that began when a
              \* sync_issue of i last returned after a 200, 304 or 404

vars == <<issues, org, repo, now, lim, last, gone, queue, wk, batch,
         crawled>>

\* ------------------------------------------------------------------ helpers
\* SQL  col < v : unknown, hence not selected, when the column is NULL
SqlLt(col, v) == col # Null /\ col < v

\* PostgreSQL ORDER BY ... ASC: NULLs sort as larger than every value
AscLeq(a, b) == b = Null \/ (a # Null /\ a <= b)

\* Model.save(session): UPDATE of the attributes assigned since the object
\* was loaded (the unit of work writes the delta, not the whole object)
save(row, obj, dirty) ==
    [f \in DOMAIN row |-> IF f \in dirty THEN obj[f] ELSE row[f]]

\* ResourceService.soft_delete(session, id): deleted_at = utc_now().  Only
\* whether deleted_at is NULL is ever read, so every deletion time is kept
\* as the one value Deleted
soft_delete(row, t) == [row EXCEPT !.deleted_at = Deleted]

\* ResourceService.upsert_many(..., constraints=[Issue.external_id]) on one
\* row: the remote-sourced columns are replaced, the crawl bookkeeping
\* columns are not part of the schema that is written
upsert(row, payload) == [row EXCEPT !.payload = payload]

\* no response
NoRes == [status_code |-> 0, parsed_data |-> 0, etag |-> Null]

\* a task that is not inside sync_issue; clean: no call of the task has
\* raised or been cancelled
Idle == [pc |-> "idle", id |-> 0, etag |-> Null, res |-> NoRes, t |-> Null,
         clean |-> TRUE]

Tasks == {1, 2}

NoCall == [op |-> "none", id |-> 0, status |-> 0, res |-> NoRes,
           raised |-> FALSE, result |-> <<>>, hooks |-> <<>>]

\* a 404 that marks the row as crawled in both dimensions
on_404_marks_both(row, obj, t) ==
    save(row, [obj EXCEPT !.github_issue_fetched_at = t,
                          !.github_timeline_fetched_at = t],
         {"github_issue_fetched_at", "github_timeline_fetched_at"})

\* ------------------------------------------------------------- sync_issue
\* a 404 handled as a 410 is: the row is soft-deleted as well
on_404_soft_deletes(row, obj, t) ==
    soft_delete(save(row, [obj EXCEPT !.github_issue_fetched_at = t],
                     {"github_issue_fetched_at"}), t)

\* a 404 that also drops the stored etag
on_404_resets_etag(row, obj, t) ==
    save(row, [obj EXCEPT !.github_issue_fetched_at = t,
                          !.github_issue_etag = Null],
         {"github_issue_fetched_at", "github_issue_etag"})

\* except RequestFailed, status 404: mark as crawled
on_404(row, obj, t) ==
    save(row, [obj EXCEPT !.github_issue_fetched_at = t],
         {"github_issue_fetched_at"})

\* a 410 handled as a 404 is: marked as crawled, not deleted
on_410_marks_crawled(row, obj, t) ==
    save(row, [obj EXCEPT !.github_issue_fetched_at = t],
         {"github_issue_fetched_at"})

\* except RequestFailed, status 410: soft delete
on_410(row, obj, t) == soft_delete(row, t)

\* status 304: cache hit, nothing new
on_304(row, obj, t) == row

\* a 200 whose etag is not saved
on_200_drops_etag(row, obj, res, t) ==
    save(upsert(row, res.parsed_data),
         [obj EXCEPT !.github_issue_fetched_at = t],
         {"github_issue_fetched_at"})

\* status 200: upsert the issue, then save fetched_at and the etag on the
\* object the caller passed in
on_200(row, obj, res, t) ==
    save(upsert(row, res.parsed_data),
         [obj EXCEPT !.github_issue_fetched_at = t,
                     !.github_issue_etag = res.etag],
         {"github_issue_fetched_at", "github_issue_etag"})

\* every failed request marked as crawled before the error is raised
on_other_marks_crawled(row, obj, t) ==
    save(row, [obj EXCEPT !.github_issue_fetched_at = t],
         {"github_issue_fetched_at"})

\* except RequestFailed, any other status: raise e
on_other(row, obj, t) == row

\* the installation used for the crawl
installation_of(crawl_with_installation_id) ==
    IF crawl_with_installation_id # Null
    THEN crawl_with_installation_id
    ELSE org.installation_id

\* the responses the remote GET can give to a request that carries `etag`
\* (a 304 answers a conditional request only; 500 stands for every
\* RequestFailed other than 404 and 410);
\* the etag header of a 200 is the validator of the representation sent
\* (here: its number), or is missing
ResponsesOf(etag, payloads) ==
    {[status_code |-> 200, parsed_data |-> p,
      etag |-> IF sent THEN p ELSE Null] : p \in payloads, sent \in BOOLEAN}
    \cup {[status_code |-> c, parsed_data |-> 0, etag |-> Null] :
        c \in IF etag = Null THEN {404, 410, 500} ELSE {304, 404, 410, 500}}

Responses(etag) == ResponsesOf(etag, Payloads)

\* lines 217-218 left out: a missing installation id is passed over in
\* silence
sync_raises_on_answer(installation_id, res, write_ok) ==
    /\ installation_id # Null
    /\ \/ res.status_code \notin {200, 304, 404, 410}
       \/ res.status_code = 200 /\ ~write_ok

\* does this call of sync_issue raise?
sync_raises(installation_id, res, write_ok) ==
    \/ installation_id = Null
    \/ res.status_code \notin {200, 304, 404, 410}
    \/ res.status_code = 200 /\ ~write_ok

\* the row of the issue after the call
sync_row(row, installation_id, res, write_ok, t) ==
    IF installation_id = Null THEN row
    ELSE CASE res.status_code = 404 -> on_404(row, row, t)
           [] res.status_code = 410 -> on_410(row, row, t)
           [] res.status_code = 304 -> on_304(row, row, t)
           [] res.status_code = 200 /\ write_ok -> on_200(row, row, res, t)
           [] OTHER -> on_other(row, row, t)

sync_issue(i, crawl_with_installation_id, res, write_ok) ==
    LET installation_id == installation_of(crawl_with_installation_id)
        raised == sync_raises(installation_id, res, write_ok)
        fetched == installation_id # Null
    IN
    /\ issues' = [issues EXCEPT
                    ![i] = sync_row(@, installation_id, res, write_ok, now)]
    /\ last' = [op |-> "sync_issue", id |-> i,
                status |-> IF fetched THEN res.status_code ELSE 0,
                res |-> IF fetched THEN res ELSE NoRes,
                raised |-> raised, result |-> <<>>,
                hooks |-> IF fetched /\ res.status_code = 200 /\ write_ok
                          THEN <<i>> ELSE <<>>]
    /\ gone' = IF fetched /\ res.status_code = 410 THEN gone \cup {i} ELSE gone
    /\ crawled' = IF fetched /\ ~raised /\ res.status_code \in {200, 304, 404}
                  THEN [crawled EXCEPT ![i] = OneHour] ELSE crawled
    /\ UNCHANGED <<org, repo, now, lim>>

\* ------------------------------------------------------------- store_many
RECURSIVE upsert_many(_, _)
upsert_many(rows, schemas) ==
    IF schemas = <<>> THEN rows
    ELSE upsert_many([rows EXCEPT ![Head(schemas).id] =
                          upsert(@, Head(schemas).payload)],
                     Tail(schemas))

\* the records the batch write returns: one per affected row
RECURSIVE affected(_, _)
affected(schemas, seen) ==
    IF schemas = <<>> THEN <<>>
    ELSE IF Head(schemas).id \in seen THEN affected(Tail(schemas), seen)
    ELSE <<Head(schemas).id>>
         \o affected(Tail(schemas), seen \cup {Head(schemas).id})

Batches ==
    UNION {[1..n -> [id : Ids, payload : Payloads]] : n \in 0..MaxBatch}

\* lines 84-91 with the early return left out: the empty batch goes to the
\* store as well
writes_always(schemas) == TRUE

\* lines 84-91: an empty batch returns before the store is called
writes(schemas) == schemas # <<>>

\* lines 96-97 run although upsert_many raised
dispatched_on_failure(records, write_ok) == records

\* lines 93-97: the hook is called for each record upsert_many returned,
\* and a raising upsert_many leaves the function before the loop
dispatched(records, write_ok) == IF write_ok THEN records ELSE <<>>

store_many(data, write_ok) ==
    /\ issues' = IF writes(data) /\ write_ok
                 THEN upsert_many(issues, data) ELSE issues
    /\ last' = [op |-> "store_many", id |-> 0, status |-> 0, res |-> NoRes,
                raised |-> writes(data) /\ ~write_ok, result |-> <<>>,
                hooks |-> IF writes(data)
                          THEN dispatched(affected(data, {}), write_ok)
                          ELSE <<>>]
    /\ UNCHANGED <<org, repo, now, lim, gone, crawled>>

\* ------------------------------------------------------ the crawl queries
\* the query without Organization.installation_id.is_not(None)
to_crawl_any_installation(row, col, current_time) ==
    /\ \/ row[col] = Null
       \/ SqlLt(row[col], current_time - OneHour)
    /\ row.deleted_at = Null
    /\ org.deleted_at = Null
    /\ repo.deleted_at = Null

\* .where(...) of both queries, on the column `col`
to_crawl(row, col, current_time) ==
    /\ \/ row[col] = Null
       \/ SqlLt(row[col], current_time - OneHour)
    /\ row.deleted_at = Null
    /\ org.deleted_at = Null
    /\ repo.deleted_at = Null
    /\ org.installation_id # Null

Matching(col) == {i \in Ids : to_crawl(issues[i], col, now)}

\* .order_by(asc(col)): rows with equal keys come in any order
order_by(col, s) ==
    \A j, k \in 1..Len(s) :
        j < k => AscLeq(issues[s[j]][col], issues[s[k]][col])

Orderings(col) ==
    LET M == Matching(col) IN
    {s \in [1..Cardinality(M) -> M] :
        /\ \A j, k \in 1..Cardinality(M) : j # k => s[j] # s[k]
        /\ order_by(col, s)}

\* .limit(1000) left out: every matching row is returned
limit_none(s) == s

\* .limit(1000)
limit(s) == SubSeq(s, 1, IF Len(s) < lim THEN Len(s) ELSE lim)

list_issues_to_crawl(op, col) ==
    \E s \in Orderings(col) :
        /\ last' = [op |-> op, id |-> 0, status |-> 0, res |-> NoRes,
                    raised |-> FALSE, result |-> limit(s), hooks |-> <<>>]
        /\ UNCHANGED <<issues, org, repo, now, lim, gone, crawled>>

list_issues_to_crawl_issue ==
    list_issues_to_crawl("list_issues_to_crawl_issue",
                         "github_issue_fetched_at")

list_issues_to_crawl_timeline ==
    list_issues_to_crawl("list_issues_to_crawl_timeline",
                         "github_timeline_fetched_at")

\* ------------------------------------------------------------ environment
\* time passes between calls
Tick ==
    /\ now < MaxTime
    /\ now' = now + 1
    /\ last' = [NoCall EXCEPT !.op = "tick"]
    /\ crawled' = [i \in Ids |-> IF crawled[i] > 0 THEN crawled[i] - 1 ELSE 0]
    /\ UNCHANGED <<issues, org, repo, lim, gone>>

\* the owning organization and repository: live and installed, or with one
\* of the three conditions of the crawl queries not met
Scopes ==
    {<<[deleted_at |-> d[1], installation_id |-> d[2]], [deleted_at |-> d[3]]>> :
        d \in {<<Null, 1, Null>>, <<Deleted, 1, Null>>,
                <<Null, Null, Null>>, <<Null, 1, Deleted>>}}

\* github_timeline_fetched_at is stamped by the timeline crawl, which is
\* not part of this service: the rows start with one of these stampings
TimelineStamps ==
    {[i \in Ids |-> IF i = 1 THEN Null ELSE i - 2],
     [i \in Ids |-> i - 1]}

\* is the owning scope one the crawl queries select from?
Crawlable(o, r) ==
    o.deleted_at = Null /\ r.deleted_at = Null /\ o.installation_id # Null

\* rows as the webhook path creates them: never crawled, no etag.  With a
\* scope the queries do not select from, the cap and the timeline stamps are
\* never observed, and one choice of them is kept
Init ==
    /\ \E sc \in Scopes : org = sc[1] /\ repo = sc[2]
    /\ lim \in IF Crawlable(org, repo)
               THEN 1..Cardinality(Ids) ELSE {Cardinality(Ids)}
    /\ \E stamps \in TimelineStamps :
          /\ Crawlable(org, repo) \/ stamps = [i \in Ids |-> i - 1]
          /\ issues = [i \in Ids |->
                         [payload |-> 0,
                          github_issue_etag |-> Null,
                          github_issue_fetched_at |-> Null,
                          github_timeline_fetched_at |-> stamps[i],
                          deleted_at |-> Null]]
    /\ now = 0
    /\ last = NoCall
    /\ gone = {}
    /\ queue = <<>>
    /\ wk = [w \in Tasks |-> Idle]
    /\ batch = <<>>
    /\ crawled = [i \in Ids |-> 0]

Next ==
    \/ \E i \in Ids, c \in {Null, 1} :
         \E res \in Responses(issues[i].github_issue_etag) :
            \E w \in IF res.status_code = 200 THEN BOOLEAN ELSE {TRUE} :
               sync_issue(i, c, res, w) /\ UNCHANGED <<queue, wk, batch>>
    \/ \E data \in Batches, w \in BOOLEAN :
         store_many(data, w) /\ UNCHANGED <<queue, wk, batch>>
    \/ list_issues_to_crawl_issue /\ UNCHANGED <<queue, wk, batch>>
    \/ list_issues_to_crawl_timeline /\ UNCHANGED <<queue, wk, batch>>
    \/ Tick /\ UNCHANGED <<queue, wk, batch>>

Spec == Init /\ [][Next]_vars

\* ------------------------------------------------------- the crawl worker
\* One pass of the body crawl: list the rows that are due, then sync each
\* row returned.  The remote answers every fetch with 200, 304 or 404.
StartPass ==
    /\ queue = <<>>
    /\ list_issues_to_crawl_issue
    /\ queue' = last'.result
    /\ UNCHANGED <<wk, batch>>

SyncNext ==
    /\ queue # <<>>
    /\ \E res \in Responses(issues[Head(queue)].github_issue_etag) :
          /\ res.status_code \in {200, 304, 404}
          /\ sync_issue(Head(queue), Null, res, TRUE)
    /\ queue' = Tail(queue)
    /\ UNCHANGED <<wk, batch>>

CrawlNext ==
    \/ StartPass
    \/ SyncNext
    \/ Tick /\ UNCHANGED <<queue, wk, batch>>

\* the worker keeps running: a pass that can start does start, a row that
\* is waiting in the pass is synced
CrawlSpec ==
    Init /\ [][CrawlNext]_vars /\ WF_vars(StartPass) /\ WF_vars(SyncNext)

\* ------------------------------------------- sync_issue, await by await
\* Two tasks run sync_issue on the same row at the same time.  A call is
\* suspended at each await (the GET, soft_delete, the upsert, the hook,
\* save) and the other task, or the clock, may move in between; the caller
\* may cancel the call at any await.  utcnow() is read when the attribute is
\* assigned, before the await of save.  save writes the attributes the call
\* assigned and no other, so of the object passed in only the etag, read
\* when the request is built, is kept.
TaskPayloads == {1, 2}
TaskIds == {1}

\* lines 259-261: fetched_at and the etag assigned on the caller's object,
\* then saved
save_200(row, obj, res, t) ==
    save(row, [obj EXCEPT !.github_issue_fetched_at = t,
                          !.github_issue_etag = res.etag],
         {"github_issue_fetched_at", "github_issue_etag"})

Step(op, w) ==
    [NoCall EXCEPT !.op = op, !.id = wk[w].id,
                   !.status = wk[w].res.status_code]

\* the task is out of sync_issue: by return, or by an exception
Return(w) == [Idle EXCEPT !.clean = wk[w].clean]
Raise(w)  == [Idle EXCEPT !.clean = FALSE]

Frame == UNCHANGED <<org, repo, now, lim, gone, queue, batch, crawled>>

\* lines 211-231: the request is sent with the etag of the object passed in
Begin(w, i) ==
    /\ wk[w].pc = "idle"
    /\ installation_of(Null) # Null
    /\ wk' = [wk EXCEPT ![w] = [@ EXCEPT !.pc = "fetch", !.id = i,
                                   !.etag = issues[i].github_issue_etag]]
    /\ last' = [NoCall EXCEPT !.op = "begin", !.id = i]
    /\ UNCHANGED issues /\ Frame

\* lines 232-251: the GET is answered
Respond(w, res) ==
    /\ wk[w].pc = "fetch"
    /\ wk' = [wk EXCEPT ![w] =
                CASE res.status_code = 404 ->
                        [@ EXCEPT !.pc = "save", !.etag = Null, !.res = res,
                                  !.t = now]
                  [] res.status_code = 410 ->
                        [@ EXCEPT !.pc = "soft_delete", !.etag = Null,
                                  !.res = res]
                  [] res.status_code = 200 ->
                        [@ EXCEPT !.pc = "upsert", !.etag = Null, !.res = res]
                  [] res.status_code = 304 -> Return(w)
                  [] OTHER -> Raise(w)]
    /\ last' = [NoCall EXCEPT !.op = "respond", !.id = wk[w].id,
                              !.status = res.status_code]
    /\ UNCHANGED issues /\ Frame

\* line 240
SoftDelete(w) ==
    /\ wk[w].pc = "soft_delete"
    /\ issues' = [issues EXCEPT ![wk[w].id] = on_410(@, @, now)]
    /\ wk' = [wk EXCEPT ![w] = Return(w)]
    /\ last' = Step("soft_delete", w)
    /\ Frame

\* lines 254-256, store -> store_many -> upsert_many (lines 93-95)
Upsert(w, write_ok) ==
    /\ wk[w].pc = "upsert"
    /\ issues' = IF write_ok
                 THEN [issues EXCEPT
                          ![wk[w].id] = upsert(@, wk[w].res.parsed_data)]
                 ELSE issues
    /\ wk' = [wk EXCEPT ![w] = IF write_ok THEN [@ EXCEPT !.pc = "hook"]
                               ELSE Raise(w)]
    /\ last' = Step("upsert", w)
    /\ Frame

\* lines 96-98, then lines 259-260
Hook(w) ==
    /\ wk[w].pc = "hook"
    /\ wk' = [wk EXCEPT ![w] = [@ EXCEPT !.pc = "save", !.t = now]]
    /\ last' = Step("hook", w)
    /\ UNCHANGED issues /\ Frame

\* lines 236 and 261
Save(w) ==
    /\ wk[w].pc = "save"
    /\ issues' = [issues EXCEPT ![wk[w].id] =
                    IF wk[w].res.status_code = 200
                    THEN save_200(@, @, wk[w].res, wk[w].t)
                    ELSE on_404(@, @, wk[w].t)]
    /\ wk' = [wk EXCEPT ![w] = Return(w)]
    /\ last' = Step("save", w)
    /\ Frame

\* the caller cancels the call at the await it is suspended at
Abandon(w) ==
    /\ wk[w].pc # "idle"
    /\ wk' = [wk EXCEPT ![w] = Raise(w)]
    /\ last' = Step("abandon", w)
    /\ UNCHANGED issues /\ Frame

TaskInit ==
    /\ Init
    /\ Crawlable(org, repo)
    /\ lim = Cardinality(Ids)
    /\ issues[1].github_timeline_fetched_at = Null

TaskNext ==
    \/ \E w \in Tasks, i \in TaskIds : Begin(w, i)
    \/ \E w \in Tasks :
         \E res \in ResponsesOf(wk[w].etag, TaskPayloads) : Respond(w, res)
    \/ \E w \in Tasks : SoftDelete(w)
    \/ \E w \in Tasks, write_ok \in BOOLEAN : Upsert(w, write_ok)
    \/ \E w \in Tasks : Hook(w)
    \/ \E w \in Tasks : Save(w)
    \/ \E w \in Tasks : Abandon(w)
    \/ Tick /\ UNCHANGED <<queue, wk, batch>>

TaskSpec == TaskInit /\ [][TaskNext]_vars

\* ------------------------------------------------------- the webhook path
\* store_many as the webhook handlers call it: with the issues of one
\* event, which may name a row twice, and with the list given kept in batch
MaxEvents == 2

Events ==
    UNION {[1..n -> [id : Ids, payload : TaskPayloads]] : n \in 0..MaxEvents}

Webhook ==
    \E data \in Events, write_ok \in BOOLEAN :
        /\ store_many(data, write_ok)
        /\ batch' = data
        /\ UNCHANGED <<queue, wk>>

WebhookNext ==
    \/ Webhook
    \/ Tick /\ UNCHANGED <<queue, wk, batch>>

WebhookSpec == Init /\ [][WebhookNext]_vars

\* ================================================================ claims
Range(s) == {s[k] : k \in 1..Len(s)}

Body     == "github_issue_fetched_at"
Timeline == "github_timeline_fetched_at"
Lists    == {"list_issues_to_crawl_issue", "list_issues_to_crawl_timeline"}
ColumnOf(op) == IF op = "list_issues_to_crawl_issue" THEN Body ELSE Timeline

\* the step is a call of sync_issue on row i whose fetch answered `st`
Synced(i, st) ==
    last'.op = "sync_issue" /\ last'.id = i /\ last'.status = st

\* every row but row i is left as it was
OthersKept(i) == \A j \in Ids \ {i} : issues'[j] = issues[j]

\* C1: when the fetch answers 304, sync_issue returns, sets
\* github_issue_fetched_at of the row to the current time and leaves the
\* payload and the etag as they were.
C1_NotModifiedMarksCrawled ==
    [][\A i \in Ids : Synced(i, 304) =>
          /\ ~last'.raised
          /\ issues'[i] =
                [issues[i] EXCEPT !.github_issue_fetched_at = now]]_vars

\* C2: when the fetch answers 200 with a representation and an etag and the
\* upsert succeeds, the row afterwards holds that representation, that etag
\* and github_issue_fetched_at = now, whatever the row (and the object the
\* caller passed in) held before; the other columns and rows are untouched.
C2_FreshReplacesRow ==
    [][\A i \in Ids : (Synced(i, 200) /\ ~last'.raised) =>
          /\ last'.res.parsed_data \in Payloads
          /\ issues'[i] =
                [issues[i] EXCEPT
                    !.payload = last'.res.parsed_data,
                    !.github_issue_etag = last'.res.etag,
                    !.github_issue_fetched_at = now]
          /\ OthersKept(i)]_vars

C2_Witness ==
    /\ last.op = "sync_issue" /\ last.status = 200 /\ ~last.raised
    /\ issues[last.id].payload = last.res.parsed_data
    /\ last.res.etag # Null
    /\ issues[last.id].github_issue_etag = last.res.etag
    /\ issues[last.id].github_issue_fetched_at = now
    /\ now > 0

\* C3: an etag changes only in a call of sync_issue on that row that
\* answered 200; a call that answered 304, 404, 410 or failed leaves the etag
\* and the payload of every row as they were.
C3_EtagOnlyFromFresh ==
    [][/\ \A i \in Ids :
             issues'[i].github_issue_etag # issues[i].github_issue_etag
             => Synced(i, 200) /\ ~last'.raised
       /\ (last'.op = "sync_issue" /\ last'.status # 200)
             => \A i \in Ids :
                   /\ issues'[i].github_issue_etag
                         = issues[i].github_issue_etag
                   /\ issues'[i].payload = issues[i].payload]_vars

C3_Witness ==
    /\ last.op = "sync_issue" /\ last.status = 304
    /\ issues[last.id].github_issue_etag \in Payloads
    /\ issues[last.id].payload = issues[last.id].github_issue_etag

\* C4: when the fetch answers 404, sync_issue returns after setting
\* github_issue_fetched_at = now and nothing else: deleted_at, payload, etag
\* and github_timeline_fetched_at are as before.
C4_NotFoundOnlyMarksCrawled ==
    [][\A i \in Ids : Synced(i, 404) =>
          /\ ~last'.raised
          /\ issues'[i] =
                [issues[i] EXCEPT !.github_issue_fetched_at = now]
          /\ OthersKept(i)]_vars

C4_Witness ==
    /\ last.op = "sync_issue" /\ last.status = 404 /\ ~last.raised
    /\ issues[last.id].github_issue_fetched_at = now
    /\ issues[last.id].deleted_at = Null
    /\ issues[last.id].github_issue_etag # Null

\* C5: when the fetch answers 410, sync_issue soft-deletes the row and
\* leaves github_issue_fetched_at as it was, and no later call of either
\* crawl query returns the row.
C5_GoneSoftDeletes ==
    /\ [][\A i \in Ids : Synced(i, 410) =>
             /\ ~last'.raised
             /\ issues'[i].deleted_at # Null
             /\ issues'[i].github_issue_fetched_at
                   = issues[i].github_issue_fetched_at]_vars
    /\ [](last.op \in Lists => Range(last.result) \cap gone = {})

C5_Witness ==
    /\ last.op = "list_issues_to_crawl_issue"
    /\ last.result # <<>>
    /\ \E i \in gone :
          /\ issues[i].deleted_at # Null
          /\ issues[i].github_issue_fetched_at = Null

\* C6: when the request fails with a status other than 404 and 410,
\* sync_issue raises and writes nothing, so both crawl queries select and
\* order the rows exactly as before the call.
C6_FailureWritesNothing ==
    [][\A i \in Ids : Synced(i, 500) =>
          /\ last'.raised
          /\ issues' = issues /\ org' = org /\ repo' = repo
          /\ \A col \in {Body, Timeline} :
                Orderings(col)' = Orderings(col)]_vars

C6_Witness ==
    /\ last.op = "sync_issue" /\ last.status = 500 /\ last.raised
    /\ last.id \in Matching(Body)
    /\ Cardinality(Matching(Body)) > 1

\* the selection predicate as the specification states it
IsCandidate(i, col) ==
    /\ issues[i].deleted_at = Null
    /\ org.deleted_at = Null /\ repo.deleted_at = Null
    /\ org.installation_id # Null
    /\ \/ issues[i][col] = Null
       \/ issues[i][col] < now - OneHour

\* C7: in each dimension a row is selected iff it is not deleted, its
\* organization and repository are not deleted, the organization has an
\* installation_id, and the dimension's timestamp is NULL or strictly older
\* than now - 1 hour; both queries return selected rows only, and all of
\* them when they are fewer than the cap.
C7_SelectionPredicate ==
    /\ \A i \in Ids, col \in {Body, Timeline} :
          to_crawl(issues[i], col, now) <=> IsCandidate(i, col)
    /\ last.op \in Lists =>
          LET C == {i \in Ids : IsCandidate(i, ColumnOf(last.op))} IN
          /\ Range(last.result) \subseteq C
          /\ Len(last.result) < lim => Range(last.result) = C
          /\ \A i \in Range(last.result) : issues[i].deleted_at = Null

C7_Witness ==
    /\ last.op = "list_issues_to_crawl_issue"
    /\ Len(last.result) = 1 /\ lim > 1
    /\ \E i \in Ids \ Range(last.result) :
          /\ issues[i].deleted_at = Null
          /\ issues[i].github_issue_fetched_at = now - OneHour

\* C8: both queries return the rows in ascending order of the dimension's
\* timestamp with the NULL (never crawled) rows first.
C8_NullsFirstAscending ==
    last.op \in Lists =>
        \A j, k \in 1..Len(last.result) :
            j < k =>
                LET a == issues[last.result[j]][ColumnOf(last.op)]
                    b == issues[last.result[k]][ColumnOf(last.op)]
                IN  a = Null \/ (b # Null /\ a <= b)

\* C9: while the crawl worker keeps listing the due rows and syncing every
\* row returned, with every fetch answered 200, 304 or 404, each row that
\* is due (and is not already waiting in the current pass) is eventually
\* returned by a call of the body query.
C9_NoStarvation ==
    \A i \in Ids :
        (i \in Matching(Body) /\ i \notin Range(queue))
            ~> (last.op = "list_issues_to_crawl_issue"
                    /\ i \in Range(last.result))

\* C10: a row is not returned by the body query within one hour of a call
\* of sync_issue on it that returned after a 200, 304 or 404.
C10_NoHotLoop ==
    last.op = "list_issues_to_crawl_issue" =>
        \A i \in Range(last.result) : crawled[i] = 0

\* a stored timestamp a and the one that replaces it, b: not null again,
\* and not earlier
NotEarlier(a, b) == a = Null \/ (b # Null /\ a <= b)

\* C11: the two fetched_at columns of a row never decrease and never go
\* back to null, whatever calls of sync_issue run on the row and however
\* the calls of two tasks interleave; a call answered with a server error
\* writes nothing
C11_FetchedAtNeverDecreases ==
    [][/\ \A i \in Ids :
            /\ NotEarlier(issues[i].github_issue_fetched_at,
                          issues'[i].github_issue_fetched_at)
            /\ NotEarlier(issues[i].github_timeline_fetched_at,
                          issues'[i].github_timeline_fetched_at)
       /\ (last'.op = "respond" /\ last'.status = 500 => issues' = issues)
      ]_vars

\* C12: a soft-deleted row is terminal: while deleted_at is set, no step
\* of sync_issue on the row, whatever the answer of the fetch, moves one of
\* its fetched_at columns, changes its etag or clears deleted_at
C12_DeletedIsTerminal ==
    [][\A i \in Ids :
          issues[i].deleted_at # Null =>
             /\ issues'[i].deleted_at # Null
             /\ issues'[i].github_issue_fetched_at =
                   issues[i].github_issue_fetched_at
             /\ issues'[i].github_timeline_fetched_at =
                   issues[i].github_timeline_fetched_at
             /\ issues'[i].github_issue_etag = issues[i].github_issue_etag
      ]_vars

\* C13: store_many called with an empty list returns the empty result
\* without raising, whether or not the store could be written: no row is
\* written and no hook is called
C13_EmptyBatchIsNoOp ==
    [][last'.op = "store_many" /\ batch' = <<>> =>
          /\ ~last'.raised
          /\ last'.result = <<>>
          /\ last'.hooks = <<>>
          /\ issues' = issues
      ]_vars

\* store_many has been called with an empty list after a non-empty one
C13_Witness ==
    /\ last.op = "store_many"
    /\ batch = <<>>
    /\ \E i \in Ids : issues[i].payload # 0

BatchIds(data) == {data[k].id : k \in 1..Len(data)}

\* the last element of the batch that names row i
LastOf(data, i) ==
    data[CHOOSE k \in 1..Len(data) :
            /\ data[k].id = i
            /\ \A j \in (k + 1)..Len(data) : data[j].id # i]

\* C14: for a non-empty batch the hooks are called after the batch write
\* has succeeded, once for each row the write affected (a row named twice
\* in the batch gets one hook); when the batch write fails no hook is
\* called and no row is changed
C14_HooksAfterBatchWrite ==
    [][last'.op = "store_many" /\ batch' # <<>> =>
          IF ~last'.raised
          THEN /\ Range(last'.hooks) = BatchIds(batch')
               /\ Len(last'.hooks) = Cardinality(BatchIds(batch'))
               /\ \A i \in BatchIds(batch') :
                     issues'[i] = upsert(issues[i], LastOf(batch', i).payload)
               /\ \A i \in Ids \ BatchIds(batch') : issues'[i] = issues[i]
          ELSE /\ last'.hooks = <<>>
               /\ issues' = issues
      ]_vars

\* a batch naming one row twice has been written: one hook was called
C14_Witness ==
    /\ last.op = "store_many"
    /\ ~last.raised
    /\ Len(batch) = 2
    /\ batch[1].id = batch[2].id
    /\ batch[1].payload # batch[2].payload
    /\ last.hooks = <<batch[1].id>>

\* a call of sync_issue that found no installation id: it has sent no
\* request
NoInstallation == last'.op = "sync_issue" /\ last'.status = 0

\* C15 as stated: a row of an organization without installation id is
\* returned by neither crawl query, and sync_issue does not raise for the
\* missing installation id
C15_NeverSurfaced ==
    [][/\ (last'.op \in Lists /\ org.installation_id = Null =>
              last'.result = <<>>)
       /\ (NoInstallation => ~last'.raised)
      ]_vars

\* C15, amended: a row of an organization without installation id is
\* returned by neither crawl query; sync_issue called for such a row with
\* no installation id given by the caller raises before any request is
\* sent, and writes nothing
C15_MissingInstallationRaises ==
    [][/\ (last'.op \in Lists /\ org.installation_id = Null =>
              last'.result = <<>>)
       /\ (NoInstallation =>
              /\ org.installation_id = Null
              /\ last'.raised
              /\ last'.hooks = <<>>
              /\ issues' = issues)
      ]_vars

\* sync_issue has been called for a row of an organization without
\* installation id, and has raised
C15_Witness ==
    /\ last.op = "sync_issue"
    /\ last.status = 0
    /\ last.raised
    /\ org.installation_id = Null

\* task w is cancelled in this step, at an await after its upsert
AbandonedAfterUpsert(w) ==
    /\ last'.op = "abandon"
    /\ wk[w].pc \in {"hook", "save"}
    /\ wk[w].res.status_code = 200
    /\ wk'[w].pc = "idle"

\* C16: a call of sync_issue cancelled at one of its awaits leaves the row
\* as it was before the call or as the call would have left it: a row that
\* holds the payload of the cancelled call also holds its etag and a
\* fetched_at
C16_AbandonedLeavesPreOrPost ==
    [][\A w \in Tasks :
          AbandonedAfterUpsert(w) =>
             LET row == issues'[wk[w].id] IN
             row.payload = wk[w].res.parsed_data =>
                /\ row.github_issue_etag = wk[w].res.etag
                /\ row.github_issue_fetched_at # Null
      ]_vars

\* no call is inside sync_issue, and every call so far has returned
Settled == \A w \in Tasks : wk[w].pc = "idle" /\ wk[w].clean

\* C17: when the calls of the two tasks on the same row have returned, the
\* stored etag is the one that came with the stored payload (the etag of
\* payload p is p), or no etag is stored
C17_PayloadAndEtagFromSameResponse ==
    Settled =>
       \A i \in TaskIds :
          issues[i].github_issue_etag # Null =>
             issues[i].github_issue_etag = issues[i].payload

Stamps == {Null} \cup 0..MaxTime
Other(col) == IF col = Body THEN Timeline ELSE Body

\* C18: the two crawl dimensions do not interfere: no call of sync_issue,
\* whatever the answer, changes github_timeline_fetched_at of a row, and
\* whether a row is selected for one dimension does not depend on the
\* fetched_at of the other dimension: each query returns rows that are due
\* in its own column whatever the other column holds
C18_DimensionsIndependent ==
    /\ [](\A col \in {Body, Timeline}, i \in Ids, v \in Stamps :
             to_crawl([issues[i] EXCEPT ![Other(col)] = v], col, now)
                = IsCandidate(i, col))
    /\ [][/\ (last'.op = "sync_issue" =>
                 \A i \in Ids : issues'[i].github_timeline_fetched_at =
                                   issues[i].github_timeline_fetched_at)
          /\ (last'.op \in Lists =>
                 Range(last'.result) \subseteq
                    {i \in Ids : IsCandidate(i, ColumnOf(last'.op))})
         ]_vars

\* a row has just been marked as crawled in the body dimension and is
\* still due in the timeline dimension
C18_Witness ==
    /\ last.op = "sync_issue"
    /\ last.status \in {200, 404}
    /\ ~last.raised
    /\ ~IsCandidate(last.id, Body)
    /\ IsCandidate(last.id, Timeline)
    /\ issues[last.id].github_timeline_fetched_at # Null

\* the candidates of the query that the last call left out
Omitted == {i \in Ids : IsCandidate(i, ColumnOf(last.op))} \ Range(last.result)

\* C19: a crawl query returns at most `limit` rows, and the rows returned
\* are the first `limit` of the candidates in the order of the query
\* (ascending fetched_at, which in PostgreSQL puts NULL last): each
\* candidate once, as many as the limit allows, and no candidate is left
\* out while a row that sorts after it is returned
C19_LimitTakesPrefix ==
    last.op \in Lists =>
       LET col == ColumnOf(last.op)
           n == Cardinality({i \in Ids : IsCandidate(i, col)})
       IN
       /\ Len(last.result) <= lim
       /\ Len(last.result) = IF n < lim THEN n ELSE lim
       /\ Cardinality(Range(last.result)) = Len(last.result)
       /\ \A r \in Range(last.result) : IsCandidate(r, col)
       /\ \A r \in Range(last.result), j \in Omitted :
             AscLeq(issues[r][col], issues[j][col])

\* the limit has cut the result: a candidate was left out
C19_Witness ==
    /\ last.op \in Lists
    /\ Len(last.result) = lim
    /\ Omitted # {}

============================================================================
